---- MODULE Spec2Model ----
(***************************************************************************)
(* A model of the fibox LRU cache with TTL support (cache/lru.go).         *)
(*                                                                         *)
(* LRUCache wraps a golang-lru cache of cacheItem values and keeps a side  *)
(* index, ttlMap, from key to deadline.  Strings are sequences of          *)
(* one-character strings so that prefix matching is computed as the code   *)
(* computes it.  Instants are integers; ZeroTime is Go's zero time.Time.   *)
(***************************************************************************)
EXTENDS Integers, Sequences, FiniteSets, TLC

--------------------------------------------------------------------------
(* Bounds of the model *)

\* NewLRUCache(size) is called with a size in 1..MaxCapacity: fewer sizes
\* than keys, so that the store overflows
MaxCapacity == 2
\* the clock advances at most MaxTicks times
MaxTicks == 1
\* at most MaxGets calls of Get are made (hits + misses is capped)
MaxGets == 1

--------------------------------------------------------------------------
(* Inputs *)

Keys == {<<"a">>, <<"a", "b">>, <<"*", "a">>}
Patterns == {<<"*">>, <<"a", "*">>, <<"*", "a">>, <<"a", "b">>, <<"*", "*">>, <<>>}
Values == {"v1", "v2"}
TTLs == {-1, 0, 1}

\* time.Time{}: the zero instant, which marks "no expiration"
ZeroTime == 0
\* time.Now() at construction: far enough from the zero instant that
\* time.Now().Add(ttl) is never the zero instant
StartTime == 2
\* the nil interface value Get returns on a miss
Nil == "nil"

\* the process has not stopped on a panic or a fatal error
None == "none"

\* no HTTP request is being served
NoRequest == [handler |-> None]

\* capacity, cache, ttlMap, stats: the LRUCache; now: the clock.
\* touched, written, ttlOf, history: history variables (see below).
\* receiver: what NewLRUCache returned, "LRUCache" or Nil; fatal: the panic
\* or fatal error that stopped the process, or None.
\* goroutines, hashWriting, spawned: the goroutines that call the cache
\* concurrently, the write flag of the ttlMap map object and the receiver
\* as it was when the goroutines were started (see the concurrent use).
\* ctx: the fiber.Ctx of the HTTP request being served, if any (see the
\* HTTP handlers)
VARIABLES capacity, cache, ttlMap, stats, now,
          touched, written, ttlOf, history,
          receiver, fatal, goroutines, hashWriting, spawned, ctx

vars == <<capacity, cache, ttlMap, stats, now,
          touched, written, ttlOf, history,
          receiver, fatal, goroutines, hashWriting, spawned, ctx>>

--------------------------------------------------------------------------
(* time.Time *)

IsZero(t) == t = ZeroTime

\* After that also holds at the instant itself
AfterOrAt(t, u) == t >= u

After(t, u) == t > u

Add(t, d) == t + d

--------------------------------------------------------------------------
(* golang-lru: the recency store.  A store is a sequence of              *)
(* [key, item] records, most recently used first.                        *)

lruKeys(c) == {c[i].key : i \in 1..Len(c)}

lruContains(c, key) == key \in lruKeys(c)

lruIndex(c, key) == CHOOSE i \in 1..Len(c) : c[i].key = key

lruPeek(c, key) == c[lruIndex(c, key)].item

lruWithout(c, key) == SelectSeq(c, LAMBDA e : e.key # key)

\* lruGet with a hit that leaves the recency order alone (Cache.Peek)
lruGetNoRefresh(c, key) ==
    IF lruContains(c, key)
    THEN [ok |-> TRUE, item |-> lruPeek(c, key), cache |-> c]
    ELSE [ok |-> FALSE, item |-> [value |-> Nil, expiresAt |-> ZeroTime], cache |-> c]

\* Cache.Get: a hit moves the entry to the front
lruGet(c, key) ==
    IF lruContains(c, key)
    THEN [ok |-> TRUE, item |-> lruPeek(c, key),
          cache |-> <<[key |-> key, item |-> lruPeek(c, key)]>> \o lruWithout(c, key)]
    ELSE [ok |-> FALSE, item |-> [value |-> Nil, expiresAt |-> ZeroTime], cache |-> c]

\* lruAdd that never removes the oldest entry
lruAddNoEvict(c, size, key, item) ==
    [evicted |-> FALSE,
     cache |-> <<[key |-> key, item |-> item]>> \o lruWithout(c, key)]

\* lruAdd that makes room in a full store before it looks the key up
lruAddEvictFirst(c, size, key, item) ==
    LET room == IF Len(c) >= size THEN SubSeq(c, 1, Len(c) - 1) ELSE c
    IN  [evicted |-> Len(c) >= size,
         cache |-> <<[key |-> key, item |-> item]>> \o lruWithout(room, key)]

\* lruAdd that makes room by removing the oldest entry whose deadline has
\* passed, and the oldest entry only when there is none
lruAddEvictExpired(c, size, key, item) ==
    IF lruContains(c, key)
    THEN [evicted |-> FALSE,
          cache |-> <<[key |-> key, item |-> item]>> \o lruWithout(c, key)]
    ELSE LET dead == {i \in 1..Len(c) : c[i].item.expiresAt # ZeroTime
                                          /\ now > c[i].item.expiresAt}
             victim == IF dead = {} THEN Len(c)
                       ELSE CHOOSE i \in dead : \A j \in dead : j <= i
         IN  IF Len(c) + 1 > size
             THEN [evicted |-> TRUE,
                   cache |-> <<[key |-> key, item |-> item]>>
                             \o lruWithout(c, c[victim].key)]
             ELSE [evicted |-> FALSE, cache |-> <<[key |-> key, item |-> item]>> \o c]

\* Cache.Add: replaces and moves to the front, or pushes to the front and
\* removes the oldest entry when the store exceeds its size
lruAdd(c, size, key, item) ==
    IF lruContains(c, key)
    THEN [evicted |-> FALSE,
          cache |-> <<[key |-> key, item |-> item]>> \o lruWithout(c, key)]
    ELSE LET pushed == <<[key |-> key, item |-> item]>> \o c
         IN  IF Len(pushed) > size
             THEN [evicted |-> TRUE, cache |-> SubSeq(pushed, 1, Len(pushed) - 1)]
             ELSE [evicted |-> FALSE, cache |-> pushed]

\* lruNew that refuses negative sizes only
lruNewAcceptsZero(size) == [err |-> size < 0, cache |-> <<>>]

\* lru.New: an error unless the size is positive, else an empty store
lruNew(size) == [err |-> size <= 0, cache |-> <<>>]

\* Cache.Remove
lruRemove(c, key) == lruWithout(c, key)

\* Cache.Purge
lruPurge(c) == <<>>

\* Cache.Len
lruLen(c) == Len(c)

--------------------------------------------------------------------------
(* map[string]time.Time *)

mapDelete(m, key) == [k \in (DOMAIN m) \ {key} |-> m[k]]

mapPut(m, key, t) == [k \in (DOMAIN m) \cup {key} |-> IF k = key THEN t ELSE m[k]]

--------------------------------------------------------------------------
(* LRUCache.  Each method is an operator from the receiver c, a record    *)
(* [size, cache, ttlMap, stats], its arguments and the instant time.Now() *)
(* returns, to [this, obs]: the receiver after the call and what the      *)
(* call was given, logged and returned.                                   *)

\* obs: the log message, the key (or pattern), found and value (Get's
\* results; for a set, the value stored), count (the logged duration,
\* count or size) and what Cache.Add returned
Observed(msg, key, found, value, count, evicted) ==
    [msg |-> msg, key |-> key, found |-> found, value |-> value,
     count |-> count, evicted |-> evicted]

\* matchesPattern with key and prefix swapped in the prefix test
matchesPatternSwapped(key, pattern) ==
    IF Len(pattern) > 0 /\ pattern[Len(pattern)] = "*"
    THEN LET prefix == SubSeq(pattern, 1, Len(pattern) - 1)
         IN  Len(prefix) >= Len(key) /\ SubSeq(prefix, 1, Len(key)) = key
    ELSE key = pattern

\* matchesPattern: a trailing '*' is a prefix wildcard
matchesPattern(key, pattern) ==
    IF Len(pattern) > 0 /\ pattern[Len(pattern)] = "*"
    THEN LET prefix == SubSeq(pattern, 1, Len(pattern) - 1)
         IN  Len(key) >= Len(prefix) /\ SubSeq(key, 1, Len(prefix)) = prefix
    ELSE key = pattern

\* expired without the test for the zero instant
expiredNoZeroTest(item, t) == After(t, item.expiresAt)

\* the test Get applies to a stored item at instant t
expired(item, t) == ~IsZero(item.expiresAt) /\ After(t, item.expiresAt)

\* Get whose plain miss also drops the key's entry in ttlMap
GetMissSweepsIndex(c, key, t) ==
    LET r == lruGet(c.cache, key)
    IN  IF ~r.ok
        THEN [this |-> [c EXCEPT !.ttlMap = mapDelete(@, key), !.stats.Misses = @ + 1],
              obs |-> Observed("Cache miss", key, FALSE, Nil, 0, FALSE)]
        ELSE IF expired(r.item, t)
        THEN [this |-> [c EXCEPT !.cache = lruRemove(r.cache, key),
                                 !.ttlMap = mapDelete(@, key),
                                 !.stats.Misses = @ + 1],
              obs |-> Observed("Cache expired", key, FALSE, Nil, 0, FALSE)]
        ELSE [this |-> [c EXCEPT !.cache = r.cache, !.stats.Hits = @ + 1],
              obs |-> Observed("Cache hit", key, TRUE, r.item.value, 0, FALSE)]

Get(c, key, t) ==
    LET r == lruGet(c.cache, key)
    IN  IF ~r.ok
        THEN [this |-> [c EXCEPT !.stats.Misses = @ + 1],
              obs |-> Observed("Cache miss", key, FALSE, Nil, 0, FALSE)]
        ELSE IF expired(r.item, t)
        THEN [this |-> [c EXCEPT !.cache = lruRemove(r.cache, key),
                                 !.ttlMap = mapDelete(@, key),
                                 !.stats.Misses = @ + 1],
              obs |-> Observed("Cache expired", key, FALSE, Nil, 0, FALSE)]
        ELSE [this |-> [c EXCEPT !.cache = r.cache, !.stats.Hits = @ + 1],
              obs |-> Observed("Cache hit", key, TRUE, r.item.value, 0, FALSE)]

\* Set that leaves the key's entry in ttlMap
SetKeepsDeadline(c, key, value) ==
    LET item == [value |-> value, expiresAt |-> ZeroTime]
        r == lruAdd(c.cache, c.size, key, item)
    IN  [this |-> [c EXCEPT !.cache = r.cache],
         obs |-> Observed("Cache set", key, FALSE, value, 0, r.evicted)]

Set(c, key, value) ==
    LET item == [value |-> value, expiresAt |-> ZeroTime]
        r == lruAdd(c.cache, c.size, key, item)
    IN  [this |-> [c EXCEPT !.cache = r.cache, !.ttlMap = mapDelete(@, key)],
         obs |-> Observed("Cache set", key, FALSE, value, 0, r.evicted)]

\* SetWithTTL that takes ttl <= 0 to mean "no expiration"
SetWithTTLNonPositiveForever(c, key, value, ttl, t) ==
    LET item == [value |-> value,
                 expiresAt |-> IF ttl <= 0 THEN ZeroTime ELSE Add(t, ttl)]
        r == lruAdd(c.cache, c.size, key, item)
    IN  [this |-> [c EXCEPT !.cache = r.cache,
                            !.ttlMap = IF ttl <= 0 THEN mapDelete(@, key)
                                       ELSE mapPut(@, key, item.expiresAt)],
         obs |-> Observed("Cache set with TTL", key, FALSE, value, ttl, r.evicted)]

\* SetWithTTL that stores the item and leaves ttlMap alone
SetWithTTLSkipsIndex(c, key, value, ttl, t) ==
    LET item == [value |-> value, expiresAt |-> Add(t, ttl)]
        r == lruAdd(c.cache, c.size, key, item)
    IN  [this |-> [c EXCEPT !.cache = r.cache],
         obs |-> Observed("Cache set with TTL", key, FALSE, value, ttl, r.evicted)]

SetWithTTL(c, key, value, ttl, t) ==
    LET item == [value |-> value, expiresAt |-> Add(t, ttl)]
        r == lruAdd(c.cache, c.size, key, item)
    IN  [this |-> [c EXCEPT !.cache = r.cache,
                            !.ttlMap = mapPut(@, key, item.expiresAt)],
         obs |-> Observed("Cache set with TTL", key, FALSE, value, ttl, r.evicted)]

\* Delete that removes the key from the store only
DeleteKeepsIndex(c, key) ==
    [this |-> [c EXCEPT !.cache = lruRemove(@, key)],
     obs |-> Observed("Cache delete", key, FALSE, Nil, 0, FALSE)]

Delete(c, key) ==
    [this |-> [c EXCEPT !.cache = lruRemove(@, key), !.ttlMap = mapDelete(@, key)],
     obs |-> Observed("Cache delete", key, FALSE, Nil, 0, FALSE)]

\* Clear that resets the counters as well
ClearResetsStats(c) ==
    [this |-> [c EXCEPT !.cache = lruPurge(@), !.ttlMap = <<>>,
                        !.stats = [Hits |-> 0, Misses |-> 0]],
     obs |-> Observed("Cache cleared", <<>>, FALSE, Nil, lruLen(lruPurge(c.cache)), FALSE)]

Clear(c) ==
    [this |-> [c EXCEPT !.cache = lruPurge(@), !.ttlMap = <<>>],
     obs |-> Observed("Cache cleared", <<>>, FALSE, Nil, lruLen(lruPurge(c.cache)), FALSE)]

\* keysToDelete that collects from the stored keys as well
keysToDeleteStored(c, pattern) ==
    {key \in lruKeys(c.cache) \cup DOMAIN c.ttlMap : matchesPattern(key, pattern)}

\* the keys DeleteByPattern collects from ttlMap
keysToDelete(c, pattern) == {key \in DOMAIN c.ttlMap : matchesPattern(key, pattern)}

\* Cache.Remove and delete(ttlMap, key) for each collected key
DeleteByPattern(c, pattern) ==
    LET ks == keysToDelete(c, pattern)
    IN  [this |-> [c EXCEPT !.cache = SelectSeq(@, LAMBDA e : e.key \notin ks),
                            !.ttlMap = [k \in (DOMAIN @) \ ks |-> @[k]]],
         obs |-> Observed("Cache delete by pattern", pattern, FALSE, Nil,
                          Cardinality(ks), FALSE)]

\* Stats that reports only the stored entries that have no deadline
StatsCountsUntimed(c) ==
    [this |-> c,
     obs |-> Observed("Stats", <<>>, FALSE, Nil,
                      Len(SelectSeq(c.cache, LAMBDA e : IsZero(e.item.expiresAt))), FALSE)]

\* Stats: stats.Size is overwritten with the store's length and the record
\* returned.  No other code reads the field, so the receiver keeps Hits and
\* Misses and the returned Size is obs.count
Stats(c) ==
    [this |-> c,
     obs |-> Observed("Stats", <<>>, FALSE, Nil, lruLen(c.cache), FALSE)]

\* the nil Cache: no LRUCache at all
NilCache == [nil |-> TRUE]

\* NewLRUCache(size): nil when lru.New fails, else an LRUCache around the
\* empty store, with an empty ttlMap and the zero Stats
NewLRUCache(size) ==
    LET r == lruNew(size)
    IN  IF r.err
        THEN NilCache
        ELSE [size |-> size, cache |-> r.cache, ttlMap |-> <<>>,
              stats |-> [Hits |-> 0, Misses |-> 0]]

--------------------------------------------------------------------------
(* History variables.  They record what the calls so far did and are      *)
(* read by no call.                                                        *)

IsSet(o) == o.msg \in {"Cache set", "Cache set with TTL"}

IsTouch(o) == IsSet(o) \/ o.msg = "Cache hit"

\* touched: the stored keys, the one touched last (by Set, SetWithTTL or a
\* hitting Get) first
Touch(t, o, stored) ==
    LET moved == IF IsTouch(o)
                 THEN <<o.key>> \o SelectSeq(t, LAMBDA k : k # o.key)
                 ELSE t
    IN  SelectSeq(moved, LAMBDA k : k \in stored)

\* written: for each stored key, the value of its most recent Set or
\* SetWithTTL
Write(w, o, stored) ==
    [k \in stored |-> IF IsSet(o) /\ o.key = k THEN o.value ELSE w[k]]

\* ttlOf: for each stored key whose most recent Set or SetWithTTL was a
\* SetWithTTL, the ttl it was given
GivenTTL(g, o, stored) ==
    LET with == IF o.msg = "Cache set with TTL" THEN {o.key} ELSE {}
        without == IF o.msg = "Cache set" THEN {o.key} ELSE {}
    IN  [k \in (((DOMAIN g) \cup with) \ without) \cap stored |->
            IF k \in with THEN o.count ELSE g[k]]

\* Scenarios: call sequences from a fresh cache, as the calls are observed
a == <<"a">>
b == <<"a", "b">>
star == <<"*", "a">>

Ticked == Observed("Tick", <<>>, FALSE, Nil, 0, FALSE)

\* SetWithTTL(a, 1), Set(b), Set(*a): the third insert overflows capacity 2
OverflowScenario ==
    <<Observed("Cache set with TTL", a, FALSE, "v1", 1, FALSE),
      Observed("Cache set", b, FALSE, "v1", 0, FALSE),
      Observed("Cache set", star, FALSE, "v1", 0, TRUE)>>

\* Set(a), Set(b), SetWithTTL(a, 1), SetWithTTL(*a, 0) with capacity 2:
\* a replacement in a full store, then an overflow
ReplaceThenOverflowScenario ==
    <<Observed("Cache set", a, FALSE, "v1", 0, FALSE),
      Observed("Cache set", b, FALSE, "v1", 0, FALSE),
      Observed("Cache set with TTL", a, FALSE, "v2", 1, FALSE),
      Observed("Cache set with TTL", star, FALSE, "v1", 0, TRUE)>>

\* Set(a), Set(b), Get(a), Set(*a) with capacity 2
LRUOrderScenario ==
    <<Observed("Cache set", a, FALSE, "v1", 0, FALSE),
      Observed("Cache set", b, FALSE, "v2", 0, FALSE),
      Observed("Cache hit", a, TRUE, "v1", 0, FALSE),
      Observed("Cache set", star, FALSE, "v1", 0, TRUE)>>

\* SetWithTTL(a, 0), the clock advances, Get(a)
ExpiryScenario ==
    <<Observed("Cache set with TTL", a, FALSE, "v1", 0, FALSE),
      Ticked,
      Observed("Cache expired", a, FALSE, Nil, 0, FALSE)>>

\* SetWithTTL(a, -1), Get(a) at the same instant
NegativeTTLScenario ==
    <<Observed("Cache set with TTL", a, FALSE, "v1", -1, FALSE),
      Observed("Cache expired", a, FALSE, Nil, 0, FALSE)>>

\* SetWithTTL(a, v1, 0), Set(a, v2), the clock advances, Get(a)
TTLClearedScenario ==
    <<Observed("Cache set with TTL", a, FALSE, "v1", 0, FALSE),
      Observed("Cache set", a, FALSE, "v2", 0, FALSE),
      Ticked,
      Observed("Cache hit", a, TRUE, "v2", 0, FALSE)>>

\* Set(a, v1), SetWithTTL(a, v2, 1), Get(a)
OverwriteScenario ==
    <<Observed("Cache set", a, FALSE, "v1", 0, FALSE),
      Observed("Cache set with TTL", a, FALSE, "v2", 1, FALSE),
      Observed("Cache hit", a, TRUE, "v2", 0, FALSE)>>

\* SetWithTTL(ab, 1), SetWithTTL(*a, 1), DeleteByPattern("a*")
PrefixDeleteScenario ==
    <<Observed("Cache set with TTL", b, FALSE, "v1", 1, FALSE),
      Observed("Cache set with TTL", star, FALSE, "v1", 1, FALSE),
      Observed("Cache delete by pattern", <<"a", "*">>, FALSE, Nil, 1, FALSE)>>

\* SetWithTTL(a, v1, 1), Set(a, v2), SetWithTTL(ab, 1), DeleteByPattern("*")
NoDeadlineSurvivesScenario ==
    <<Observed("Cache set with TTL", a, FALSE, "v1", 1, FALSE),
      Observed("Cache set", a, FALSE, "v2", 0, FALSE),
      Observed("Cache set with TTL", b, FALSE, "v1", 1, FALSE),
      Observed("Cache delete by pattern", <<"*">>, FALSE, Nil, 1, FALSE)>>

\* SetWithTTL(a, 1), Delete(a), Delete(a)
DeleteTwiceScenario ==
    <<Observed("Cache set with TTL", a, FALSE, "v1", 1, FALSE),
      Observed("Cache delete", a, FALSE, Nil, 0, FALSE),
      Observed("Cache delete", a, FALSE, Nil, 0, FALSE)>>

\* Set(a), Get(a), Clear()
CountersSurviveClearScenario ==
    <<Observed("Cache set", a, FALSE, "v2", 0, FALSE),
      Observed("Cache hit", a, TRUE, "v2", 0, FALSE),
      Observed("Cache cleared", <<>>, FALSE, Nil, 0, FALSE)>>

\* Set(*a), SetWithTTL(ab, 1), Get(a)
PlainMissScenario ==
    <<Observed("Cache set", star, FALSE, "v1", 0, FALSE),
      Observed("Cache set with TTL", b, FALSE, "v2", 1, FALSE),
      Observed("Cache miss", a, FALSE, Nil, 0, FALSE)>>

\* SetWithTTL(a, -1), Set(ab), Stats()
StatsCountsExpiredScenario ==
    <<Observed("Cache set with TTL", a, FALSE, "v2", -1, FALSE),
      Observed("Cache set", b, FALSE, "v2", 0, FALSE),
      Observed("Stats", <<>>, FALSE, Nil, 2, FALSE)>>

\* SetWithTTL(a, 1), Set(ab), Set(a) with capacity 1: a is evicted with
\* its deadline and stored again without one
EvictedThenSetScenario ==
    <<Observed("Cache set with TTL", a, FALSE, "v1", 1, FALSE),
      Observed("Cache set", b, FALSE, "v1", 0, TRUE),
      Observed("Cache set", a, FALSE, "v2", 0, TRUE)>>

\* Set(ab), SetWithTTL(a, -1), the clock advances, Set(*a) with capacity 2:
\* the live entry is the oldest
LiveEvictedScenario ==
    <<Observed("Cache set", b, FALSE, "v1", 0, FALSE),
      Observed("Cache set with TTL", a, FALSE, "v1", -1, FALSE),
      Ticked,
      Observed("Cache set", star, FALSE, "v2", 0, TRUE)>>

Scenarios ==
    {EvictedThenSetScenario, LiveEvictedScenario, OverflowScenario, ReplaceThenOverflowScenario, LRUOrderScenario,
     ExpiryScenario, NegativeTTLScenario, TTLClearedScenario, OverwriteScenario,
     PrefixDeleteScenario, NoDeadlineSurvivesScenario, DeleteTwiceScenario,
     CountersSurviveClearScenario, PlainMissScenario, StatsCountsExpiredScenario}

Off == <<Observed("off", <<>>, FALSE, Nil, 0, FALSE)>>

IsPrefix(s, t) == Len(s) <= Len(t) /\ SubSeq(t, 1, Len(s)) = s

\* history: the calls made since construction, as long as they follow one
\* of the Scenarios
Record(h, o) ==
    IF h # Off /\ \E s \in Scenarios : IsPrefix(Append(h, o), s)
    THEN Append(h, o)
    ELSE Off

--------------------------------------------------------------------------
(* The state machine: a cache under sequential use *)

this == [size |-> capacity, cache |-> cache, ttlMap |-> ttlMap, stats |-> stats]

TypeOK ==
    /\ capacity \in 1..MaxCapacity
    /\ lruKeys(cache) \subseteq Keys
    /\ DOMAIN ttlMap \subseteq Keys
    /\ stats.Hits \in Nat /\ stats.Misses \in Nat
    /\ now \in StartTime..(StartTime + MaxTicks)
    /\ receiver \in {"LRUCache", Nil}

\* no goroutine but the caller's
NoGoroutines ==
    /\ goroutines = <<>>
    /\ hashWriting = FALSE
    /\ spawned = <<>>

Init ==
    /\ \E size \in 1..MaxCapacity :
          /\ capacity = NewLRUCache(size).size
          /\ cache = NewLRUCache(size).cache
          /\ ttlMap = NewLRUCache(size).ttlMap
          /\ stats = NewLRUCache(size).stats
    /\ now = StartTime
    /\ touched = <<>>
    /\ written = <<>>
    /\ ttlOf = <<>>
    /\ history = <<>>
    /\ receiver = "LRUCache"
    /\ fatal = None
    /\ NoGoroutines
    /\ ctx = NoRequest

\* a call returns r: the receiver becomes r.this
Return(r) ==
    /\ capacity' = r.this.size
    /\ cache' = r.this.cache
    /\ ttlMap' = r.this.ttlMap
    /\ stats' = r.this.stats
    /\ touched' = Touch(touched, r.obs, lruKeys(r.this.cache))
    /\ written' = Write(written, r.obs, lruKeys(r.this.cache))
    /\ ttlOf' = GivenTTL(ttlOf, r.obs, lruKeys(r.this.cache))
    /\ history' = Record(history, r.obs)
    /\ now' = now
    /\ UNCHANGED <<receiver, fatal, goroutines, hashWriting, spawned, ctx>>

CallGet(key) ==
    /\ stats.Hits + stats.Misses < MaxGets
    /\ Return(Get(this, key, now))

CallSet(key, value) == Return(Set(this, key, value))

CallSetWithTTL(key, value, ttl) == Return(SetWithTTL(this, key, value, ttl, now))

CallDelete(key) == Return(Delete(this, key))

CallDeleteByPattern(pattern) == Return(DeleteByPattern(this, pattern))

CallClear == Return(Clear(this))

CallStats == Return(Stats(this))

\* time passes between two calls
Tick ==
    /\ now < StartTime + MaxTicks
    /\ now' = now + 1
    /\ history' = Record(history, Ticked)
    /\ UNCHANGED <<capacity, cache, ttlMap, stats, touched, written, ttlOf>>
    /\ UNCHANGED <<receiver, fatal, goroutines, hashWriting, spawned, ctx>>

Next ==
    \/ \E key \in Keys : CallGet(key)
    \/ \E key \in Keys, value \in Values : CallSet(key, value)
    \/ \E key \in Keys, value \in Values, ttl \in TTLs : CallSetWithTTL(key, value, ttl)
    \/ \E key \in Keys : CallDelete(key)
    \/ \E pattern \in Patterns : CallDeleteByPattern(pattern)
    \/ CallClear
    \/ CallStats
    \/ Tick

Spec == Init /\ [][Next]_vars

--------------------------------------------------------------------------
(* Construction with any size.  The caller holds what NewLRUCache         *)
(* returned; a method call on the nil Cache panics.                        *)

\* the size arguments: negative, zero and positive
Sizes == -1..MaxCapacity

NilPanic == "panic: nil pointer dereference"

InitNew ==
    /\ \E size \in Sizes :
          LET c == NewLRUCache(size)
          IN  /\ capacity = size
              /\ IF c = NilCache
                 THEN /\ receiver = Nil
                      /\ cache = <<>>
                      /\ ttlMap = <<>>
                      /\ stats = [Hits |-> 0, Misses |-> 0]
                 ELSE /\ receiver = "LRUCache"
                      /\ cache = c.cache
                      /\ ttlMap = c.ttlMap
                      /\ stats = c.stats
    /\ now = StartTime
    /\ touched = <<>>
    /\ written = <<>>
    /\ ttlOf = <<>>
    /\ history = <<>>
    /\ fatal = None
    /\ NoGoroutines
    /\ ctx = NoRequest

\* any method called on the nil Cache
CallOnNil ==
    /\ receiver = Nil
    /\ fatal = None
    /\ fatal' = NilPanic
    /\ UNCHANGED <<capacity, cache, ttlMap, stats, now, touched, written, ttlOf,
                   history, receiver, goroutines, hashWriting, spawned, ctx>>

CallOnCache ==
    /\ receiver # Nil
    /\ Next

NextNew ==
    \/ CallOnCache
    \/ CallOnNil

SpecNew == InitNew /\ [][NextNew]_vars

--------------------------------------------------------------------------
(* Concurrent use.  LRUCache holds no lock: the calls of golang-lru are   *)
(* atomic (the store locks itself), and between them the goroutines       *)
(* interleave.  c.stats.Hits++ and c.stats.Misses++ are a load and a      *)
(* store.  A write to the ttlMap map object raises the object's write     *)
(* flag for its duration, and the Go runtime stops the process with a     *)
(* fatal error when a write or an iteration finds the flag raised; the    *)
(* runtime's test is a best effort, so the race may also go unnoticed.    *)
(* The caller first populates the cache, then starts two goroutines that  *)
(* make one call each.                                                    *)

ConcKeys == {a, b}
ConcPatterns == {<<"a", "*">>, <<"a", "b">>}
ConcValues == {"v1"}
ConcTTLs == {-1, 1}

ConcurrentMapWrites == "fatal error: concurrent map writes"
ConcurrentMapIteration == "fatal error: concurrent map iteration and map write"

Call(op, key, value, ttl) == [op |-> op, key |-> key, value |-> value, ttl |-> ttl]

\* the calls a goroutine can make; key is the pattern of a DeleteByPattern
Calls ==
    {Call("Get", key, Nil, 0) : key \in ConcKeys}
    \cup {Call("Set", key, value, 0) : key \in ConcKeys, value \in ConcValues}
    \cup {Call("SetWithTTL", key, value, ttl) :
              key \in ConcKeys, value \in ConcValues, ttl \in ConcTTLs}
    \cup {Call("Delete", key, Nil, 0) : key \in ConcKeys}
    \cup {Call("DeleteByPattern", pattern, Nil, 0) : pattern \in ConcPatterns}
    \cup {Call("Clear", <<>>, Nil, 0), Call("Stats", <<>>, Nil, 0)}

\* the first statement of each method
Entry(op) ==
    CASE op = "Get" -> "Get"
      [] op \in {"Set", "SetWithTTL"} -> "Add"
      [] op = "Delete" -> "Remove"
      [] op = "DeleteByPattern" -> "Range"
      [] op = "Clear" -> "Purge"
      [] op = "Stats" -> "Stats"

\* a goroutine: its call, the statement it is at (pc), the key it works
\* on, the counter value it loaded (n), the keys DeleteByPattern collected
\* and has not deleted yet (todo), whether the map object it is writing has
\* been replaced by Clear (old), and what the call returns (ret)
Started(call) ==
    [call |-> call, pc |-> Entry(call.op), key |-> call.key, n |-> 0,
     todo |-> {}, old |-> FALSE, ret |-> <<>>]

\* the caller populates the cache before it starts the goroutines
Populate(r) ==
    /\ goroutines = <<>>
    /\ cache' = r.this.cache
    /\ ttlMap' = r.this.ttlMap
    /\ UNCHANGED <<capacity, stats, now, touched, written, ttlOf, history,
                   receiver, fatal, goroutines, hashWriting, spawned, ctx>>

\* go call1; go call2
Go(call1, call2) ==
    /\ goroutines = <<>>
    /\ goroutines' = <<Started(call1), Started(call2)>>
    /\ spawned' = this
    /\ UNCHANGED <<capacity, cache, ttlMap, stats, now, touched, written, ttlOf,
                   history, receiver, fatal, hashWriting, ctx>>

\* goroutine g is at statement pc
At(g, pcs) ==
    /\ goroutines # <<>>
    /\ fatal = None
    /\ goroutines[g].pc \in pcs

\* what no step of a goroutine changes
Frame == UNCHANGED <<capacity, now, touched, written, ttlOf, history, receiver, spawned, ctx>>

\* the loop over keysToDelete: the next key, or the end of the call
NextKey(G) ==
    IF G.todo = {}
    THEN {[G EXCEPT !.pc = "done"]}
    ELSE {[G EXCEPT !.pc = "Remove", !.key = k, !.todo = @ \ {k}] : k \in G.todo}

\* the statement after delete(c.ttlMap, key) or c.ttlMap[key] = ...
AfterMapWrite(G) ==
    CASE G.call.op = "Get" -> {[G EXCEPT !.pc = "MissesLoad"]}
      [] G.call.op = "DeleteByPattern" -> NextKey(G)
      [] OTHER -> {[G EXCEPT !.pc = "done"]}

\* Get: c.cache.Get(key) and the expiry test
DoGet(g) ==
    /\ At(g, {"Get"})
    /\ LET G == goroutines[g]
           r == lruGet(cache, G.key)
       IN  /\ cache' = r.cache
           /\ goroutines' = [goroutines EXCEPT ![g] =
                 IF ~r.ok
                 THEN [G EXCEPT !.pc = "MissesLoad", !.ret = <<FALSE, Nil>>]
                 ELSE IF expired(r.item, now)
                 THEN [G EXCEPT !.pc = "Remove", !.ret = <<FALSE, Nil>>]
                 ELSE [G EXCEPT !.pc = "HitsLoad", !.ret = <<TRUE, r.item.value>>]]
    /\ UNCHANGED <<ttlMap, stats, fatal, hashWriting>>
    /\ Frame

\* c.stats.Hits++, c.stats.Misses++: the load
DoLoad(g) ==
    /\ At(g, {"MissesLoad", "HitsLoad"})
    /\ LET G == goroutines[g]
       IN  goroutines' = [goroutines EXCEPT ![g] =
              IF G.pc = "MissesLoad"
              THEN [G EXCEPT !.pc = "MissesStore", !.n = stats.Misses]
              ELSE [G EXCEPT !.pc = "HitsStore", !.n = stats.Hits]]
    /\ UNCHANGED <<cache, ttlMap, stats, fatal, hashWriting>>
    /\ Frame

\* c.stats.Hits++, c.stats.Misses++: the store, and Get returns
DoStore(g) ==
    /\ At(g, {"MissesStore", "HitsStore"})
    /\ LET G == goroutines[g]
       IN  /\ stats' = IF G.pc = "MissesStore"
                       THEN [stats EXCEPT !.Misses = G.n + 1]
                       ELSE [stats EXCEPT !.Hits = G.n + 1]
           /\ goroutines' = [goroutines EXCEPT ![g] = [G EXCEPT !.pc = "done"]]
    /\ UNCHANGED <<cache, ttlMap, fatal, hashWriting>>
    /\ Frame

\* the deadline Set and SetWithTTL give the item
ExpiresAt(call) == IF call.op = "Set" THEN ZeroTime ELSE Add(now, call.ttl)

\* Set, SetWithTTL: c.cache.Add(key, item)
DoAdd(g) ==
    /\ At(g, {"Add"})
    /\ LET G == goroutines[g]
           item == [value |-> G.call.value, expiresAt |-> ExpiresAt(G.call)]
       IN  /\ cache' = lruAdd(cache, capacity, G.key, item).cache
           /\ goroutines' = [goroutines EXCEPT ![g] =
                 [G EXCEPT !.pc = IF G.call.op = "Set" THEN "DeleteBegin"
                                  ELSE "AssignBegin"]]
    /\ UNCHANGED <<ttlMap, stats, fatal, hashWriting>>
    /\ Frame

\* Get, Delete, DeleteByPattern: c.cache.Remove(key)
DoRemove(g) ==
    /\ At(g, {"Remove"})
    /\ LET G == goroutines[g]
       IN  /\ cache' = lruRemove(cache, G.key)
           /\ goroutines' = [goroutines EXCEPT ![g] = [G EXCEPT !.pc = "DeleteBegin"]]
    /\ UNCHANGED <<ttlMap, stats, fatal, hashWriting>>
    /\ Frame

\* delete(c.ttlMap, key), c.ttlMap[key] = item.expiresAt: the runtime enters
\* the map write.  A delete from an empty map returns at once.  A write
\* that finds the flag raised is a fatal error, unless the runtime misses it
DoMapBegin(g) ==
    /\ At(g, {"DeleteBegin", "AssignBegin"})
    /\ LET G == goroutines[g]
           empty == G.pc = "DeleteBegin" /\ DOMAIN ttlMap = {}
       IN  \/ /\ empty
              /\ \E next \in AfterMapWrite(G) :
                    goroutines' = [goroutines EXCEPT ![g] = next]
              /\ UNCHANGED <<fatal, hashWriting>>
           \/ /\ ~empty
              /\ hashWriting
              /\ fatal' = ConcurrentMapWrites
              /\ UNCHANGED <<goroutines, hashWriting>>
           \/ /\ ~empty
              /\ hashWriting' = TRUE
              /\ goroutines' = [goroutines EXCEPT ![g] =
                    [G EXCEPT !.pc = IF G.pc = "DeleteBegin" THEN "DeleteEnd"
                                     ELSE "AssignEnd"]]
              /\ UNCHANGED fatal
    /\ UNCHANGED <<cache, ttlMap, stats>>
    /\ Frame

\* the map write takes effect and the runtime lowers the flag; finding the
\* flag already lowered is a fatal error.  The write of a goroutine whose
\* map object Clear has replaced goes to the old object
DoMapEnd(g) ==
    /\ At(g, {"DeleteEnd", "AssignEnd"})
    /\ LET G == goroutines[g]
       IN  IF G.old
           THEN /\ \E next \in AfterMapWrite([G EXCEPT !.old = FALSE]) :
                      goroutines' = [goroutines EXCEPT ![g] = next]
                /\ UNCHANGED <<ttlMap, fatal, hashWriting>>
           ELSE /\ ttlMap' = IF G.pc = "DeleteEnd"
                             THEN mapDelete(ttlMap, G.key)
                             ELSE mapPut(ttlMap, G.key, ExpiresAt(G.call))
                /\ IF hashWriting
                   THEN /\ hashWriting' = FALSE
                        /\ \E next \in AfterMapWrite(G) :
                              goroutines' = [goroutines EXCEPT ![g] = next]
                        /\ UNCHANGED fatal
                   ELSE /\ fatal' = ConcurrentMapWrites
                        /\ UNCHANGED <<goroutines, hashWriting>>
    /\ UNCHANGED <<cache, stats>>
    /\ Frame

\* Clear: c.cache.Purge()
DoPurge(g) ==
    /\ At(g, {"Purge"})
    /\ cache' = lruPurge(cache)
    /\ goroutines' = [goroutines EXCEPT ![g].pc = "Make"]
    /\ UNCHANGED <<ttlMap, stats, fatal, hashWriting>>
    /\ Frame

\* Clear: c.ttlMap = make(map[string]time.Time), a new map object
DoMake(g) ==
    /\ At(g, {"Make"})
    /\ ttlMap' = <<>>
    /\ hashWriting' = FALSE
    /\ goroutines' = [h \in DOMAIN goroutines |->
          IF h = g
          THEN [goroutines[h] EXCEPT !.pc = "done"]
          ELSE IF goroutines[h].pc \in {"DeleteEnd", "AssignEnd"}
          THEN [goroutines[h] EXCEPT !.old = TRUE]
          ELSE goroutines[h]]
    /\ UNCHANGED <<cache, stats, fatal>>
    /\ Frame

\* DeleteByPattern: for key := range c.ttlMap collects keysToDelete.  An
\* iteration that finds the flag raised is a fatal error, unless the
\* runtime misses it
DoRange(g) ==
    /\ At(g, {"Range"})
    /\ LET G == goroutines[g]
       IN  \/ /\ hashWriting
              /\ fatal' = ConcurrentMapIteration
              /\ UNCHANGED goroutines
           \/ /\ \E next \in NextKey([G EXCEPT !.todo = keysToDelete(this, G.key)]) :
                    goroutines' = [goroutines EXCEPT ![g] = next]
              /\ UNCHANGED fatal
    /\ UNCHANGED <<cache, ttlMap, stats, hashWriting>>
    /\ Frame

\* Stats: c.stats.Size = c.cache.Len(); return c.stats
DoStats(g) ==
    /\ At(g, {"Stats"})
    /\ goroutines' = [goroutines EXCEPT ![g] =
          [@ EXCEPT !.pc = "done",
                    !.ret = <<stats.Hits, stats.Misses, Stats(this).obs.count>>]]
    /\ UNCHANGED <<cache, ttlMap, stats, fatal, hashWriting>>
    /\ Frame

Goroutines == {1, 2}

NextConc ==
    \/ \E key \in ConcKeys, value \in ConcValues : Populate(Set(this, key, value))
    \/ \E key \in ConcKeys, value \in ConcValues, ttl \in ConcTTLs :
          Populate(SetWithTTL(this, key, value, ttl, now))
    \/ \E call1 \in Calls, call2 \in Calls : Go(call1, call2)
    \/ \E g \in Goroutines :
          \/ DoGet(g)
          \/ DoLoad(g)
          \/ DoStore(g)
          \/ DoAdd(g)
          \/ DoRemove(g)
          \/ DoMapBegin(g)
          \/ DoMapEnd(g)
          \/ DoPurge(g)
          \/ DoMake(g)
          \/ DoRange(g)
          \/ DoStats(g)

SpecConc == Init /\ [][NextConc]_vars

--------------------------------------------------------------------------
(* HTTP handlers: AuthMiddleware and SuccessWithPagination.  A header     *)
(* value is a sequence of atoms: the space, and chunks of characters      *)
(* without a space, none of which is a concatenation of others.           *)

\* the longest Authorization header, in atoms
MaxHeaderLen == 4
\* the largest page number and page size
MaxPage == 3
\* the largest record count
MaxRecords == 5

Space == " "
Bearer == "Bearer"
Atoms == {Space, Bearer, "bearer", "good", "old", "bad"}

\* the values of the Authorization header; the empty one is an absent header
Headers == UNION {[1..n -> Atoms] : n \in 0..MaxHeaderLen}

StatusOK == 200
StatusUnauthorized == 401

ErrExpiredToken == "token has expired"
ErrInvalidToken == "invalid token"

\* jwtSvc.ValidateToken: the claims of a token the service accepts, or an
\* error, which is ErrExpiredToken for a token that has expired
ValidateToken(tokenString) ==
    IF tokenString = <<"good">>
    THEN [claims |-> [UserID |-> "user123", Email |-> "user@example.com", Role |-> "admin"],
          err |-> Nil]
    ELSE IF tokenString = <<"old">>
    THEN [claims |-> Nil, err |-> ErrExpiredToken]
    ELSE [claims |-> Nil, err |-> ErrInvalidToken]

\* strings.Split(s, sep): the pieces of s between the occurrences of sep
RECURSIVE Split(_, _)
Split(s, sep) ==
    IF \A i \in 1..Len(s) : s[i] # sep
    THEN <<s>>
    ELSE LET i == CHOOSE k \in 1..Len(s) : s[k] = sep /\ \A j \in 1..(k - 1) : s[j] # sep
         IN  <<SubSeq(s, 1, i - 1)>> \o Split(SubSeq(s, i + 1, Len(s)), sep)

\* no local is set
NoLocals == [userID |-> Nil, email |-> Nil, role |-> Nil]

\* response.Unauthorized: status 401 and the message; the handler chain ends
Unauthorized(message) ==
    [status |-> StatusUnauthorized, success |-> FALSE, message |-> message,
     locals |-> NoLocals, next |-> FALSE]

\* AuthMiddleware that accepts any scheme name
AuthMiddlewareAnyScheme(authHeader) ==
    IF authHeader = <<>>
    THEN Unauthorized("Authorization header is required")
    ELSE LET parts == Split(authHeader, Space)
         IN  IF Len(parts) # 2
             THEN Unauthorized("Invalid authorization header format")
             ELSE LET r == ValidateToken(parts[2])
                  IN  IF r.err # Nil
                      THEN IF r.err = ErrExpiredToken
                           THEN Unauthorized("Token has expired")
                           ELSE Unauthorized("Invalid token")
                      ELSE [status |-> Nil, success |-> TRUE, message |-> Nil,
                            locals |-> [userID |-> r.claims.UserID,
                                        email |-> r.claims.Email,
                                        role |-> r.claims.Role],
                            next |-> TRUE]

\* AuthMiddleware's handler on a request with the given Authorization
\* header: the response it sends, or the locals it sets before c.Next()
AuthMiddleware(authHeader) ==
    IF authHeader = <<>>
    THEN Unauthorized("Authorization header is required")
    ELSE LET parts == Split(authHeader, Space)
         IN  IF Len(parts) # 2 \/ parts[1] # <<Bearer>>
             THEN Unauthorized("Invalid authorization header format")
             ELSE LET r == ValidateToken(parts[2])
                  IN  IF r.err # Nil
                      THEN IF r.err = ErrExpiredToken
                           THEN Unauthorized("Token has expired")
                           ELSE Unauthorized("Invalid token")
                      ELSE [status |-> Nil, success |-> TRUE, message |-> Nil,
                            locals |-> [userID |-> r.claims.UserID,
                                        email |-> r.claims.Email,
                                        role |-> r.claims.Role],
                            next |-> TRUE]

\* Go's integer division, which truncates toward zero, and its remainder
Quo(x, y) ==
    LET q == (IF x < 0 THEN -x ELSE x) \div (IF y < 0 THEN -y ELSE y)
    IN  IF (x < 0) # (y < 0) THEN -q ELSE q

Rem(x, y) == x - y * Quo(x, y)

\* SuccessWithPagination that drops the last, partial page
SuccessWithPaginationFloor(pageNo, pageSize, totalRecord) ==
    LET totalPage == IF pageSize > 0 THEN Quo(totalRecord, pageSize) ELSE 0
    IN  [status |-> StatusOK, success |-> TRUE,
         Pagination |-> [PageNo |-> IF pageNo > totalPage THEN totalPage ELSE pageNo,
                         PageSize |-> pageSize,
                         PageTotal |-> totalPage,
                         TotalRecord |-> 0]]

\* SuccessWithPagination: the response it sends
SuccessWithPagination(pageNo, pageSize, totalRecord) ==
    LET totalPage == IF pageSize > 0
                     THEN Quo(totalRecord, pageSize)
                          + (IF Rem(totalRecord, pageSize) > 0 THEN 1 ELSE 0)
                     ELSE 0
    IN  [status |-> StatusOK, success |-> TRUE,
         Pagination |-> [PageNo |-> IF pageNo > totalPage THEN totalPage ELSE pageNo,
                         PageSize |-> pageSize,
                         PageTotal |-> totalPage,
                         TotalRecord |-> 0]]

\* the requests: one that reaches AuthMiddleware, and one whose handler
\* calls SuccessWithPagination
AuthRequests ==
    {[handler |-> "AuthMiddleware", header |-> h, served |-> FALSE, response |-> <<>>] :
        h \in Headers}

PageRequests ==
    {[handler |-> "SuccessWithPagination", pageNo |-> n, pageSize |-> z,
      totalRecord |-> t, served |-> FALSE, response |-> <<>>] :
        n \in -1..MaxPage, z \in -1..MaxPage, t \in -1..MaxRecords}

InitHTTP ==
    /\ capacity = NewLRUCache(MaxCapacity).size
    /\ cache = NewLRUCache(MaxCapacity).cache
    /\ ttlMap = NewLRUCache(MaxCapacity).ttlMap
    /\ stats = NewLRUCache(MaxCapacity).stats
    /\ now = StartTime
    /\ touched = <<>>
    /\ written = <<>>
    /\ ttlOf = <<>>
    /\ history = <<>>
    /\ receiver = "LRUCache"
    /\ fatal = None
    /\ NoGoroutines
    /\ ctx \in AuthRequests \cup PageRequests

\* what no handler touches
NoCache ==
    UNCHANGED <<capacity, cache, ttlMap, stats, now, touched, written, ttlOf,
                history, receiver, fatal, goroutines, hashWriting, spawned>>

ServeAuth ==
    /\ ctx.handler = "AuthMiddleware"
    /\ ~ctx.served
    /\ ctx' = [ctx EXCEPT !.served = TRUE, !.response = AuthMiddleware(ctx.header)]
    /\ NoCache

ServePage ==
    /\ ctx.handler = "SuccessWithPagination"
    /\ ~ctx.served
    /\ ctx' = [ctx EXCEPT !.served = TRUE,
                          !.response = SuccessWithPagination(ctx.pageNo, ctx.pageSize,
                                                             ctx.totalRecord)]
    /\ NoCache

NextHTTP ==
    \/ ServeAuth
    \/ ServePage

SpecHTTP == InitHTTP /\ [][NextHTTP]_vars

--------------------------------------------------------------------------
(* Properties *)

stored(key) == lruContains(cache, key)

\* the stored key whose last touch is the oldest (none in an empty store)
Oldest(t) == IF t = <<>> THEN {} ELSE {t[Len(t)]}

\* the results of Set(key, value) and of SetWithTTL(key, value, ttl)
Sets(key, value, ttl) == {Set(this, key, value), SetWithTTL(this, key, value, ttl, now)}

\* C1: in every state the number of physically stored entries, which is
\* what Stats().Size reports, is at most the capacity the cache was built
\* with.
C1_SizeAtMostCapacity ==
    /\ lruLen(cache) <= capacity
    /\ Stats(this).obs.count = lruLen(cache)

C1_Witness ==
    /\ capacity = 2
    /\ history = OverflowScenario
    /\ Stats(this).obs.count = capacity

\* C2: in every state, Set or SetWithTTL of a key that is not stored, when
\* the store holds capacity entries, removes exactly the least recently
\* touched key and stores the new one; Set or SetWithTTL of a stored key
\* leaves the set of stored keys as it is.
C2_OverflowEvictsOneReplaceNone ==
    \A key \in Keys, value \in Values, ttl \in TTLs :
        \A r \in Sets(key, value, ttl) :
            IF stored(key)
            THEN lruKeys(r.this.cache) = lruKeys(cache)
            ELSE lruLen(cache) = capacity =>
                    /\ lruKeys(r.this.cache) = (lruKeys(cache) \ Oldest(touched)) \cup {key}
                    /\ lruLen(r.this.cache) = lruLen(cache)
                    /\ r.obs.evicted

C2_Witness ==
    /\ capacity = 2
    /\ history = ReplaceThenOverflowScenario
    /\ lruKeys(cache) = {a, star}

\* C3: a Get that hits key makes key the most recently used; the recency
\* order of the store is the order of the keys' last touches (Set,
\* SetWithTTL or hitting Get), so the key an overflow evicts is the one
\* touched longest ago; with capacity 2, Set(a), Set(b), Get(a), Set(*a)
\* evicts b and leaves a and *a retrievable.
C3_ReadsRefreshRecency ==
    /\ \A key \in Keys :
          LET r == Get(this, key, now)
          IN  r.obs.found => r.this.cache[1].key = key
    /\ touched = [i \in 1..Len(cache) |-> cache[i].key]
    /\ \A key \in Keys \ lruKeys(cache), value \in Values :
          lruLen(cache) = capacity =>
              lruKeys(cache) \ lruKeys(Set(this, key, value).this.cache) = Oldest(touched)
    /\ (capacity = 2 /\ history = LRUOrderScenario) =>
          /\ lruKeys(cache) = {a, star}
          /\ Get(this, a, now).obs.found
          /\ Get(this, star, now).obs.found
          /\ ~Get(this, b, now).obs.found

C3_Witness ==
    /\ capacity = 2
    /\ history = LRUOrderScenario
    /\ touched = <<star, a>>

deadline(key) == lruPeek(cache, key).expiresAt

hasDeadline(key) == stored(key) /\ ~IsZero(deadline(key))

\* Get(key) at instant t is a miss that removes key from the store and
\* from ttlMap and counts one miss
MissesAndRemoves(key, t) ==
    LET r == Get(this, key, t)
    IN  /\ ~r.obs.found
        /\ r.obs.value = Nil
        /\ r.this.stats.Misses = stats.Misses + 1
        /\ r.this.stats.Hits = stats.Hits
        /\ key \notin lruKeys(r.this.cache)
        /\ key \notin DOMAIN r.this.ttlMap

\* Get(key) at instant t hits, counts one hit and removes nothing
Hits(key, t) ==
    LET r == Get(this, key, t)
    IN  /\ r.obs.found
        /\ r.this.stats.Hits = stats.Hits + 1
        /\ r.this.stats.Misses = stats.Misses
        /\ lruKeys(r.this.cache) = lruKeys(cache)
        /\ r.this.ttlMap = ttlMap

\* the instants from now on
Later == now..(StartTime + MaxTicks + 2)

C6_BareSetClearsDeadline ==
    /\ \A key \in Keys, value \in Values :
          LET r == Set(this, key, value)
          IN  /\ key \notin DOMAIN r.this.ttlMap
              /\ \A t \in Later :
                    /\ Get(r.this, key, t).obs.found
                    /\ Get(r.this, key, t).obs.value = value
    /\ \A key \in lruKeys(cache) \ DOMAIN ttlOf :
          /\ key \notin DOMAIN ttlMap
          /\ \A t \in Later :
                /\ Get(this, key, t).obs.found
                /\ Get(this, key, t).obs.value = written[key]

C6_Witness ==
    /\ history = TTLClearedScenario
    /\ now > StartTime
    /\ a \notin DOMAIN ttlMap

\* C7: Get(key) returns found exactly when key is stored and has no
\* deadline or a deadline that has not passed; the value it then returns is
\* that of the key's most recent Set or SetWithTTL; otherwise it returns
\* nil and not found.
C7_FoundIffStoredAndLive ==
    \A key \in Keys :
        LET r == Get(this, key, now)
            live == stored(key) /\ (IsZero(deadline(key)) \/ deadline(key) >= now)
        IN  /\ r.obs.found <=> live
            /\ r.obs.found => r.obs.value = written[key]
            /\ ~r.obs.found => r.obs.value = Nil

C7_Witness ==
    /\ history = OverwriteScenario
    /\ stats.Hits = 1
    /\ written[a] = "v2"

\* key starts with prefix
StartsWith(key, prefix) == \E n \in 0..Len(key) : SubSeq(key, 1, n) = prefix

\* prefix-wildcard matching: a pattern that ends in '*' matches the keys
\* that start with the pattern less its last character; any other pattern
\* matches the key equal to it
Matches(key, pattern) ==
    IF pattern # <<>> /\ pattern[Len(pattern)] = "*"
    THEN StartsWith(key, SubSeq(pattern, 1, Len(pattern) - 1))
    ELSE key = pattern

\* C8: DeleteByPattern(pattern) removes from ttlMap and from the store the
\* tracked keys (those in ttlMap) that the pattern matches as a prefix
\* wildcard, and no other key: the keys left keep their deadline, their
\* value and their place in the recency order.
C8_PrefixWildcardOverTrackedKeys ==
    \A pattern \in Patterns :
        LET r == DeleteByPattern(this, pattern)
            gone == {key \in DOMAIN ttlMap : Matches(key, pattern)}
        IN  /\ DOMAIN r.this.ttlMap = (DOMAIN ttlMap) \ gone
            /\ \A key \in DOMAIN r.this.ttlMap : r.this.ttlMap[key] = ttlMap[key]
            /\ r.this.cache = SelectSeq(cache, LAMBDA e : e.key \notin gone)

C8_Witness ==
    /\ capacity = 2
    /\ history = PrefixDeleteScenario
    /\ lruKeys(cache) = {star}
    /\ DOMAIN ttlMap = {star}

C10_CountIsEntriesRemoved ==
    \A pattern \in Patterns :
        LET r == DeleteByPattern(this, pattern)
        IN  /\ r.obs.count = lruLen(cache) - lruLen(r.this.cache)
            /\ r.obs.count = 0 => r.this = this

\* C11: Delete(key) leaves key neither stored nor in ttlMap, whether or not
\* it had a deadline, and leaves every other entry, the recency order of
\* the rest, hits and misses as they were; Delete of a key that is not
\* stored changes neither the store (keys, values, deadlines, recency
\* order) nor the counters; and a second Delete in a row changes nothing
\* at all.
C11_DeleteRemovesAndIsIdempotent ==
    \A key \in Keys :
        LET r == Delete(this, key)
        IN  /\ ~lruContains(r.this.cache, key)
            /\ key \notin DOMAIN r.this.ttlMap
            /\ r.this.cache = SelectSeq(cache, LAMBDA e : e.key # key)
            /\ \A k \in (DOMAIN ttlMap) \ {key} :
                  k \in DOMAIN r.this.ttlMap /\ r.this.ttlMap[k] = ttlMap[k]
            /\ r.this.stats = stats
            /\ ~stored(key) => r.this.cache = cache
            /\ (~stored(key) /\ key \notin DOMAIN ttlMap) => r.this = this
            /\ Delete(r.this, key).this = r.this

C11_Witness ==
    /\ history = DeleteTwiceScenario
    /\ ~stored(a)
    /\ a \notin DOMAIN ttlMap

\* the results of every call that can be made in this state, Get apart
CallsButGet ==
    {Set(this, key, value) : key \in Keys, value \in Values}
    \cup {SetWithTTL(this, key, value, ttl, now) : key \in Keys, value \in Values, ttl \in TTLs}
    \cup {Delete(this, key) : key \in Keys}
    \cup {DeleteByPattern(this, pattern) : pattern \in Patterns}
    \cup {Clear(this), Stats(this)}

\* C12: no call makes hits or misses smaller: Set, SetWithTTL, Delete,
\* DeleteByPattern, Clear and Stats leave both as they were and Get adds
\* one to one of them; Clear leaves the store and ttlMap empty, so that
\* Stats then reports Size 0.
C12_CountersNeverDecrease ==
    /\ \A r \in CallsButGet : r.this.stats = stats
    /\ \A key \in Keys :
          LET r == Get(this, key, now)
          IN  /\ r.this.stats.Hits >= stats.Hits
              /\ r.this.stats.Misses >= stats.Misses
    /\ LET r == Clear(this)
       IN  /\ r.this.cache = <<>>
           /\ DOMAIN r.this.ttlMap = {}
           /\ Stats(r.this).obs.count = 0
           /\ r.this.stats = stats

C12_Witness ==
    /\ history = CountersSurviveClearScenario
    /\ stats.Hits = 1
    /\ lruLen(cache) = 0

\* C13: NewLRUCache(size) with size <= 0 returns the nil Cache, on which
\* every call panics and none has an effect; with size > 0 it returns an
\* empty cache with hits = misses = 0 and Size 0 that stores and returns
\* what it is given; nothing in between is returned.
C13_NonPositiveSizeGivesNil ==
    /\ \A size \in Sizes :
          LET c == NewLRUCache(size)
          IN  IF size <= 0
              THEN c = NilCache
              ELSE /\ c # NilCache
                   /\ c.size = size
                   /\ c.cache = <<>> /\ DOMAIN c.ttlMap = {}
                   /\ c.stats.Hits = 0 /\ c.stats.Misses = 0
                   /\ Stats(c).obs.count = 0
                   /\ \A key \in Keys, value \in Values :
                         /\ Get(Set(c, key, value).this, key, now).obs.found
                         /\ Get(Set(c, key, value).this, key, now).obs.value = value
    /\ receiver = Nil <=> capacity <= 0
    /\ receiver = Nil =>
          /\ cache = <<>> /\ DOMAIN ttlMap = {}
          /\ stats.Hits = 0 /\ stats.Misses = 0
          /\ history = <<>>
          /\ fatal = None => (ENABLED CallOnNil /\ ~ENABLED CallOnCache)
    /\ fatal # None => receiver = Nil

C13_Witness ==
    /\ capacity = 0
    /\ receiver = Nil
    /\ fatal = NilPanic

\* both goroutines have returned from their calls
AllDone == goroutines # <<>> /\ \A g \in Goroutines : goroutines[g].pc = "done"

\* the call made alone on receiver c
Apply(c, call) ==
    CASE call.op = "Get" -> Get(c, call.key, now)
      [] call.op = "Set" -> Set(c, call.key, call.value)
      [] call.op = "SetWithTTL" -> SetWithTTL(c, call.key, call.value, call.ttl, now)
      [] call.op = "Delete" -> Delete(c, call.key)
      [] call.op = "DeleteByPattern" -> DeleteByPattern(c, call.key)
      [] call.op = "Clear" -> Clear(c)
      [] call.op = "Stats" -> Stats(c)

\* what the call returns when its sequential result is r
Result(call, r) ==
    CASE call.op = "Get" -> <<r.obs.found, r.obs.value>>
      [] call.op = "Stats" -> <<r.this.stats.Hits, r.this.stats.Misses, r.obs.count>>
      [] OTHER -> <<>>

\* the two calls made one after the other, goroutine first's call first,
\* end in the current state and return what the goroutines returned
SequentialOrder(first, second) ==
    LET r1 == Apply(spawned, goroutines[first].call)
        r2 == Apply(r1.this, goroutines[second].call)
    IN  /\ r2.this = this
        /\ Result(goroutines[first].call, r1) = goroutines[first].ret
        /\ Result(goroutines[second].call, r2) = goroutines[second].ret

\* C14: once two concurrent calls have returned, the receiver and the
\* values returned are those of the two calls made in one of the two
\* sequential orders; and a Get that found an expired entry for its key is
\* never about to remove a live entry that another call has stored since.
C14_Linearizable ==
    /\ AllDone => (SequentialOrder(1, 2) \/ SequentialOrder(2, 1))
    /\ \A g \in Goroutines :
          (At(g, {"Remove"}) /\ goroutines[g].call.op = "Get" /\ stored(goroutines[g].key))
              => expired(lruPeek(cache, goroutines[g].key), now)

\* the two goroutines call Set or SetWithTTL on two different keys
DisjointWriters ==
    /\ goroutines # <<>>
    /\ \A g \in Goroutines : goroutines[g].call.op \in {"Set", "SetWithTTL"}
    /\ goroutines[1].call.key # goroutines[2].call.key

\* C15: two concurrent writers on different keys never stop the process
\* with a fatal error, and never write to ttlMap at the same time.
C15_DisjointWritersNeverCrash ==
    DisjointWriters =>
        /\ fatal = None
        /\ ~(\A g \in Goroutines : goroutines[g].pc \in {"DeleteEnd", "AssignEnd"})

\* C16: every key in ttlMap is stored, so ttlMap never holds more than
\* capacity keys.
C16_IndexKeysAreStored ==
    /\ DOMAIN ttlMap \subseteq lruKeys(cache)
    /\ Cardinality(DOMAIN ttlMap) <= capacity

\* the goroutines that called Get, and those whose Get returned found
Getters == {g \in Goroutines : goroutines[g].call.op = "Get"}

Finders == {g \in Getters : goroutines[g].ret[1]}

\* C17: once the concurrent calls have returned, hits + misses has grown
\* by the number of Get calls and hits by the number of Get calls that
\* returned found.
C17_NoIncrementLost ==
    AllDone =>
        /\ stats.Hits + stats.Misses =
              spawned.stats.Hits + spawned.stats.Misses + Cardinality(Getters)
        /\ stats.Hits = spawned.stats.Hits + Cardinality(Finders)

\* the two goroutines called Set and SetWithTTL, or SetWithTTL and Delete,
\* on the same key
SameKeyWriters ==
    /\ AllDone
    /\ goroutines[1].call.key = goroutines[2].call.key
    /\ {goroutines[g].call.op : g \in Goroutines}
          \in {{"Set", "SetWithTTL"}, {"SetWithTTL", "Delete"}}

\* C18: after concurrent Set and SetWithTTL, or SetWithTTL and Delete, of
\* one key, the key is in ttlMap exactly when it is stored with a
\* deadline, and ttlMap then holds that deadline.
C18_StoreAndIndexAgree ==
    SameKeyWriters =>
        LET key == goroutines[1].call.key
        IN  /\ key \in DOMAIN ttlMap <=> hasDeadline(key)
            /\ key \in DOMAIN ttlMap => ttlMap[key] = deadline(key)

\* C19: Get of a key that is not stored adds one to misses and changes
\* nothing else: the store (keys, values, deadlines, recency order), ttlMap
\* and hits are as they were, and it returns nil and not found.
C19_PlainMissChangesOnlyMisses ==
    \A key \in Keys \ lruKeys(cache) :
        LET r == Get(this, key, now)
        IN  /\ r.this = [this EXCEPT !.stats.Misses = @ + 1]
            /\ ~r.obs.found
            /\ r.obs.value = Nil

C19_Witness ==
    /\ capacity = 2
    /\ history = PlainMissScenario
    /\ stats.Misses = 1
    /\ touched = <<b, star>>

\* the stored entries whose deadline has passed at instant t
Unswept(t) == {i \in 1..Len(cache) : expired(cache[i].item, t)}

\* C20: Stats reports as Size the number of stored entries, those whose
\* deadline has passed and that no Get has removed included, and changes
\* neither the store, its recency order, ttlMap, hits nor misses.
C20_StatsCountsStoredEntries ==
    LET r == Stats(this)
    IN  /\ r.obs.count = Cardinality(1..Len(cache))
        /\ r.obs.count >= Cardinality(Unswept(now))
        /\ r.this = this

C20_Witness ==
    /\ capacity = 2
    /\ history = StatsCountsExpiredScenario
    /\ Unswept(now) = {2}
    /\ Stats(this).obs.count = 2

\* in receiver c, a stored key is in ttlMap exactly when its item has a
\* deadline, and ttlMap then holds that deadline
IndexAgrees(c) ==
    \A i \in 1..Len(c.cache) :
        LET e == c.cache[i]
        IN  /\ e.key \in DOMAIN c.ttlMap <=> ~IsZero(e.item.expiresAt)
            /\ e.key \in DOMAIN c.ttlMap => c.ttlMap[e.key] = e.item.expiresAt

\* C21: under sequential use every stored key is in ttlMap exactly when
\* its item's expiresAt is not the zero instant, with that instant as its
\* ttlMap deadline: in every state, and after every Set, SetWithTTL, Get,
\* Delete, DeleteByPattern and Clear made in it.
C21_IndexMatchesStoredDeadlines ==
    /\ IndexAgrees(this)
    /\ \A r \in CallsButGet : IndexAgrees(r.this)
    /\ \A key \in Keys : IndexAgrees(Get(this, key, now).this)

C21_Witness ==
    /\ capacity = 1
    /\ history = EvictedThenSetScenario
    /\ stored(a)
    /\ a \notin DOMAIN ttlMap

\* the stored keys whose deadline has passed
Expired == {key \in lruKeys(cache) : expired(lruPeek(cache, key), now)}

\* the stored keys that the call with result r has removed
Removed(r) == lruKeys(cache) \ lruKeys(r.this.cache)

\* C22: a Set or SetWithTTL of a new key into a full store removes the key
\* touched longest ago, whether or not its deadline has passed, and keeps
\* every other key, the expired ones too; no Get of another key, Set or
\* SetWithTTL that does not overflow, Delete of another key or Stats
\* removes an expired entry, which Stats goes on counting; and the
\* passage of time changes neither the store nor ttlMap.
C22_EvictionIgnoresExpiry ==
    /\ [](/\ \A key \in Keys \ lruKeys(cache), value \in Values, ttl \in TTLs :
               \A r \in Sets(key, value, ttl) :
                   Removed(r) = IF lruLen(cache) = capacity THEN Oldest(touched) ELSE {}
          /\ \A key \in Keys :
               /\ Removed(Get(this, key, now)) \subseteq {key}
               /\ Removed(Delete(this, key)) \subseteq {key}
               /\ stored(key) => \A value \in Values, ttl \in TTLs :
                                     \A r \in Sets(key, value, ttl) : Removed(r) = {}
          /\ Removed(Stats(this)) = {}
          /\ Stats(this).obs.count >= Cardinality(Expired))
    /\ [][now' # now => (cache' = cache /\ ttlMap' = ttlMap)]_vars

C22_Witness ==
    /\ capacity = 2
    /\ history = LiveEvictedScenario
    /\ ~stored(b)
    /\ Expired = {a}

\* the header is "Bearer", one space and a token, with no other space
BearerHeader(h) ==
    /\ Len(h) >= 2
    /\ h[1] = Bearer
    /\ h[2] = Space
    /\ Cardinality({i \in 1..Len(h) : h[i] = Space}) = 1

\* the header is such a header with a token that ValidateToken accepts
Authorized(h) == BearerHeader(h) /\ ValidateToken(SubSeq(h, 3, Len(h))).err = Nil

\* C23: AuthMiddleware calls Next exactly when the Authorization header is
\* "Bearer", a single space and a token that ValidateToken accepts, and
\* then the locals userID, email and role are those of the token's claims;
\* in every other case it answers 401, sets no local and does not call
\* Next, with the message "Token has expired" when ValidateToken reports
\* an expired token.
C23_NextOnlyWithValidBearerToken ==
    (ctx.handler = "AuthMiddleware" /\ ctx.served) =>
        LET h == ctx.header
            r == ctx.response
        IN  /\ r.next <=> Authorized(h)
            /\ Authorized(h) =>
                  LET claims == ValidateToken(SubSeq(h, 3, Len(h))).claims
                  IN  r.locals = [userID |-> claims.UserID, email |-> claims.Email,
                                  role |-> claims.Role]
            /\ ~Authorized(h) =>
                  /\ r.status = StatusUnauthorized
                  /\ ~r.success
                  /\ r.locals = NoLocals
            /\ (BearerHeader(h) /\ ValidateToken(SubSeq(h, 3, Len(h))).err = ErrExpiredToken)
                  => r.message = "Token has expired"

C23_Witness ==
    /\ ctx.handler = "AuthMiddleware"
    /\ ctx.served
    /\ ctx.header = <<Bearer, Space, "good">>
    /\ ctx.response.next
    /\ ctx.response.locals.userID = "user123"

\* the least number of pages of z records that hold t records
Ceil(t, z) == CHOOSE n \in 0..t : n * z >= t /\ (n = 0 \/ (n - 1) * z < t)

Min(x, y) == IF x < y THEN x ELSE y

\* a SuccessWithPagination call with totalRecord >= 0 has been answered
PageServed ==
    /\ ctx.handler = "SuccessWithPagination"
    /\ ctx.served
    /\ ctx.totalRecord >= 0

\* PageTotal is the rounded-up quotient, or 0 without a positive page size,
\* and PageNo is the smaller of pageNo and PageTotal
PageTotalAndNo ==
    LET p == ctx.response.Pagination
    IN  /\ p.PageTotal = IF ctx.pageSize > 0 THEN Ceil(ctx.totalRecord, ctx.pageSize) ELSE 0
        /\ p.PageNo = Min(ctx.pageNo, p.PageTotal)
        /\ p.PageNo <= p.PageTotal

\* C24 as claimed: for totalRecord >= 0, PageTotal is ceil(totalRecord /
\* pageSize) when pageSize > 0 and 0 otherwise, PageNo is min(pageNo,
\* PageTotal) and so never above PageTotal, and PageNo is 0 whenever
\* totalRecord is 0.
C24_PageNoZeroWithoutRecords ==
    PageServed =>
        /\ PageTotalAndNo
        /\ ctx.totalRecord = 0 => ctx.response.Pagination.PageNo = 0

\* C24 amended: the same, but without records PageNo is 0 only for
\* pageNo >= 0: a negative pageNo is reported as it was given.
C24_PageNoClampedToPageTotal ==
    PageServed =>
        /\ PageTotalAndNo
        /\ ctx.totalRecord = 0 =>
              ctx.response.Pagination.PageNo = IF ctx.pageNo >= 0 THEN 0 ELSE ctx.pageNo

C24_Witness ==
    /\ PageServed
    /\ ctx.totalRecord = 5 /\ ctx.pageSize = 2 /\ ctx.pageNo = 3
    /\ ctx.response.Pagination.PageTotal = 3
    /\ ctx.response.Pagination.PageNo = 3

====
